---- MODULE Spec2Model ----
(***************************************************************************)
(* The three reccli-ts operator scripts: download_folder.py,               *)
(* upload_folder.py and clear_recycle.py.  Each script is a sequential     *)
(* program that builds command lines, hands them to /bin/sh               *)
(* (subprocess.run(..., shell=True, check=True)) and walks the listing it  *)
(* gets back.  Text is modelled as a sequence of one-character strings, so *)
(* that strip, rstrip, splitlines, shlex.quote and the shell's own lexer   *)
(* are computed character by character.                                    *)
(***************************************************************************)
EXTENDS Integers, Sequences, FiniteSets, TLC

VARIABLES script, pc, stack, trace, raised, tree, path, op, result

vars == <<script, pc, stack, trace, raised, tree, path, op, result>>

(***************************************************************************)
(* Characters.  The backquote is written as an atom: a backquote inside a  *)
(* TLA+ string literal is not read as one character by the parser.         *)
(***************************************************************************)
SQ == "'"

DQ == "\""

BS == "\\"

DOLLAR == "$"

BT == "BACKQUOTE"

SP == " "

NL == "\n"

CR == "\r"

SEP == "/"

\* str.strip() with no argument strips these (those of them the model uses).
Whitespace == {SP, NL, CR, "\t"}

\* str.splitlines() breaks on these (those of them the model uses).
LineBreaks == {NL, CR}

\* shlex.quote leaves a string alone when it has none but these characters,
\* [\w@%+=:,./-] (the upper-case letters are left out: no path of the model
\* has one).
SafeChars == {"a", "b", "c", "d", "e", "f", "g", "h", "i", "j", "k", "l", "m",
              "n", "o", "p", "q", "r", "s", "t", "u", "v", "w", "x", "y", "z",
              "0", "1", "2", "3", "4", "5", "6", "7", "8", "9",
              "@", "%", "+", "=", ":", ",", ".", "/", "-", "_"}

\* The characters that may start or continue a shell parameter name, and the
\* special parameter $$.
NameChars == {"a", "b", "c", "d", "e", "f", "g", "h", "i", "j", "k", "l", "m",
              "n", "o", "p", "q", "r", "s", "t", "u", "v", "w", "x", "y", "z",
              "_"}

(***************************************************************************)
(* Python string operations.                                               *)
(***************************************************************************)
RECURSIVE lstrip(_)
lstrip(s) == IF s # <<>> /\ Head(s) \in Whitespace THEN lstrip(Tail(s)) ELSE s

RECURSIVE rstrip(_)
rstrip(s) ==
  IF s # <<>> /\ s[Len(s)] \in Whitespace THEN rstrip(SubSeq(s, 1, Len(s) - 1))
  ELSE s

\* (faulty variant) only the leading white space goes
strip_leading_only(s) == lstrip(s)

\* item.strip()
strip(s) == rstrip(lstrip(s))

\* s.rstrip('/'): every trailing '/' goes
RECURSIVE rstrip_sep(_)
rstrip_sep(s) ==
  IF s # <<>> /\ s[Len(s)] = SEP THEN rstrip_sep(SubSeq(s, 1, Len(s) - 1))
  ELSE s

\* s.endswith('/')
endswith_sep(s) == s # <<>> /\ s[Len(s)] = SEP

\* stdout.splitlines(): a line ends at "\n", "\r" or "\r\n"; the break is
\* dropped; text after the last break is a line only when it is not empty.
RECURSIVE splitlines_(_, _, _)
splitlines_(s, cur, acc) ==
  IF s = <<>> THEN (IF cur = <<>> THEN acc ELSE Append(acc, cur))
  ELSE IF Head(s) = CR /\ Len(s) >= 2 /\ s[2] = NL
    THEN splitlines_(Tail(Tail(s)), <<>>, Append(acc, cur))
  ELSE IF Head(s) \in LineBreaks
    THEN splitlines_(Tail(s), <<>>, Append(acc, cur))
  ELSE splitlines_(Tail(s), Append(cur, Head(s)), acc)

splitlines(s) == splitlines_(s, <<>>, <<>>)

\* The index of the last '/' of s, 0 when it has none.
RECURSIVE rfind_sep(_)
rfind_sep(s) ==
  IF s = <<>> THEN 0
  ELSE IF s[Len(s)] = SEP THEN Len(s)
  ELSE rfind_sep(SubSeq(s, 1, Len(s) - 1))

\* os.path.basename(p) (posixpath): what follows the last '/'.
basename(p) == SubSeq(p, rfind_sep(p) + 1, Len(p))

\* os.path.dirname(p) (posixpath): what precedes the last '/', its trailing
\* separators dropped unless it consists of separators only.
dirname(p) ==
  LET head == SubSeq(p, 1, rfind_sep(p))
  IN  IF head # <<>> /\ rstrip_sep(head) # <<>> THEN rstrip_sep(head) ELSE head

\* (faulty variant) the two parts are put together without a separator
join_without_separator(a, b) == a \o b

\* os.path.join(a, b) (posixpath): an absolute b replaces a.
join(a, b) ==
  IF b # <<>> /\ Head(b) = SEP THEN b
  ELSE IF a = <<>> \/ a[Len(a)] = SEP THEN a \o b
  ELSE a \o <<SEP>> \o b

\* s.replace("'", "'\"'\"'")
RECURSIVE replace_quote(_)
replace_quote(s) ==
  IF s = <<>> THEN <<>>
  ELSE (IF Head(s) = SQ THEN <<SQ, DQ, SQ, DQ, SQ>> ELSE <<Head(s)>>)
       \o replace_quote(Tail(s))

\* shlex.quote(s)
shlex_quote(s) ==
  IF s = <<>> THEN <<SQ, SQ>>
  ELSE IF \A k \in 1..Len(s) : s[k] \in SafeChars THEN s
  ELSE <<SQ>> \o replace_quote(s) \o <<SQ>>

\* escape_shell_path(path)
escape_shell_path(p) == shlex_quote(p)

(***************************************************************************)
(* The command lines.  Every script builds                                 *)
(*     reccli-ts run -c "<verb> <escaped path> ..."                        *)
(* with an f-string: the escaped paths stand INSIDE a double-quoted word   *)
(* of the line that subprocess.run(..., shell=True) hands to /bin/sh -c.   *)
(***************************************************************************)
reccli_run_c == <<"r", "e", "c", "c", "l", "i", "-", "t", "s", SP,
                  "r", "u", "n", SP, "-", "c", SP>>

Verbs == {"lsp", "mkdir", "rm", "download", "upload"}

\* The verb as it is spelled in the command line.
verb_text(verb) ==
  CASE verb = "lsp" -> <<"l", "s", "p">>
    [] verb = "mkdir" -> <<"m", "k", "d", "i", "r">>
    [] verb = "rm" -> <<"r", "m">>
    [] verb = "download" -> <<"d", "o", "w", "n", "l", "o", "a", "d">>
    [] verb = "upload" -> <<"u", "p", "l", "o", "a", "d">>

RECURSIVE escaped_args(_)
escaped_args(args) ==
  IF args = <<>> THEN <<>>
  ELSE <<SP>> \o escape_shell_path(Head(args)) \o escaped_args(Tail(args))

\* f"reccli-ts run -c \"{verb} {escape_shell_path(a)} ...\""
command_line(verb, args) ==
  reccli_run_c \o <<DQ>> \o verb_text(verb) \o escaped_args(args) \o <<DQ>>

(***************************************************************************)
(* /bin/sh's lexer on one command line (POSIX quoting), one character at a *)
(* time: outside quotes a space ends a word and a backslash quotes the     *)
(* next character; between single quotes everything is literal; between    *)
(* double quotes a backslash quotes only $, backquote, double quote and    *)
(* backslash, and $name, $$ and backquotes still expand.  sh reads the     *)
(* whole line before it runs anything: an unterminated quote is a syntax   *)
(* error and nothing runs.                                                 *)
(* The lexer's state: mode (where it is), back (the mode to return to from *)
(* an escape, a parameter or a command substitution), cur (the word being  *)
(* read), inword, argv (the words read), flags ("subst": a command         *)
(* substitution ran, "expand": a parameter was expanded; the text they     *)
(* yield is not part of argv).  The command inside backquotes is read with *)
(* its own quotes: one left open there is a syntax error too.              *)
(***************************************************************************)
sh_start == [mode |-> "plain", back |-> "plain", cur |-> <<>>,
             inword |-> FALSE, argv |-> <<>>, flags |-> {}]

\* A character read in one of the modes plain, single, double.
sh_base(st, c) ==
  CASE st.mode = "single" /\ c = SQ -> [st EXCEPT !.mode = "plain"]
    [] st.mode = "single" /\ c # SQ -> [st EXCEPT !.cur = Append(@, c)]
    [] st.mode # "single" /\ c = BT ->
         [st EXCEPT !.mode = "backquote", !.back = st.mode, !.inword = TRUE,
                    !.flags = @ \cup {"subst"}]
    [] st.mode # "single" /\ c = DOLLAR ->
         [st EXCEPT !.mode = "dollar", !.back = st.mode, !.inword = TRUE]
    [] st.mode # "single" /\ c = BS ->
         [st EXCEPT !.mode = "esc", !.back = st.mode, !.inword = TRUE]
    [] st.mode = "double" /\ c = DQ -> [st EXCEPT !.mode = "plain"]
    [] st.mode = "plain" /\ c = DQ ->
         [st EXCEPT !.mode = "double", !.inword = TRUE]
    [] st.mode = "plain" /\ c = SQ ->
         [st EXCEPT !.mode = "single", !.inword = TRUE]
    [] st.mode = "plain" /\ c = SP ->
         [st EXCEPT !.cur = <<>>, !.inword = FALSE,
                    !.argv = IF st.inword THEN Append(@, st.cur) ELSE @]
    [] OTHER -> [st EXCEPT !.cur = Append(@, c), !.inword = TRUE]

sh_step(st, c) ==
  CASE st.mode = "esc" /\ st.back = "plain" ->
         [st EXCEPT !.mode = "plain", !.cur = Append(@, c)]
    [] st.mode = "esc" /\ st.back = "double" ->
         [st EXCEPT !.mode = "double",
                    !.cur = IF c \in {DOLLAR, BT, DQ, BS} THEN Append(@, c)
                            ELSE @ \o <<BS, c>>]
    [] st.mode = "dollar" /\ c \in NameChars ->
         [st EXCEPT !.mode = "name", !.flags = @ \cup {"expand"}]
    [] st.mode = "dollar" /\ c = DOLLAR ->
         [st EXCEPT !.mode = st.back, !.flags = @ \cup {"expand"}]
    [] st.mode = "dollar" /\ c \notin NameChars \cup {DOLLAR} ->
         sh_base([st EXCEPT !.mode = st.back, !.cur = Append(@, DOLLAR)], c)
    [] st.mode = "name" /\ c \in NameChars -> st
    [] st.mode = "name" /\ c \notin NameChars ->
         sh_base([st EXCEPT !.mode = st.back], c)
    [] st.mode = "backquote" /\ c = BT -> [st EXCEPT !.mode = st.back]
    [] st.mode = "backquote" /\ c = BS -> [st EXCEPT !.mode = "bqesc"]
    [] st.mode = "backquote" /\ c = SQ -> [st EXCEPT !.mode = "bqsingle"]
    [] st.mode = "backquote" /\ c = DQ -> [st EXCEPT !.mode = "bqdouble"]
    [] st.mode = "backquote" /\ c \notin {BT, BS, SQ, DQ} -> st
    [] st.mode = "bqesc" -> [st EXCEPT !.mode = "backquote"]
    [] st.mode = "bqsingle" ->
         IF c = SQ THEN [st EXCEPT !.mode = "backquote"] ELSE st
    [] st.mode = "bqdouble" ->
         IF c = DQ THEN [st EXCEPT !.mode = "backquote"] ELSE st
    [] OTHER -> sh_base(st, c)

\* The end of the line.
sh_end(st) ==
  LET word == IF st.mode = "esc" THEN Append(st.cur, BS)
              ELSE IF st.mode = "dollar" THEN Append(st.cur, DOLLAR)
              ELSE st.cur
      closed == \/ st.mode = "plain"
                \/ st.mode \in {"esc", "dollar", "name"} /\ st.back = "plain"
  IN  IF ~closed THEN [status |-> "syntax", argv |-> <<>>]
      ELSE [status |-> IF "subst" \in st.flags THEN "subst"
                       ELSE IF "expand" \in st.flags THEN "expand" ELSE "ok",
            argv |-> IF st.inword THEN Append(st.argv, word) ELSE st.argv]

RECURSIVE sh_read(_, _, _)
sh_read(line, i, st) ==
  IF i > Len(line) \/ st.mode = "eof" THEN st  \* (no mode is "eof")
  ELSE sh_read(line, i + 1, sh_step(st, line[i]))

sh(line) == sh_end(sh_read(line, 1, sh_start))

\* subprocess.run(line, shell=True): /bin/sh -c line.  The command that sh
\* starts reads its -c word with the same quoting rules.  The outcome is how
\* far the line got, and the arguments the command's verb finally receives.
shell_run(line) ==
  LET outer == sh(line)
      inner == IF outer.status = "ok" /\ Len(outer.argv) = 4
               THEN sh(outer.argv[4]) ELSE [status |-> "none", argv |-> <<>>]
  IN  [outer |-> outer.status, words |-> Len(outer.argv),
       inner |-> inner.status, received |-> inner.argv]

(***************************************************************************)
(* The fixed roots of the three scripts.                                   *)
(***************************************************************************)
\* download_folder.py: remote_path = "/cloud/download"
download_remote_path == <<SEP, "c", "l", "o", "u", "d", SEP,
                          "d", "o", "w", "n", "l", "o", "a", "d">>

\* download_folder.py: local_path = "./download"
download_local_path == <<".", SEP, "d", "o", "w", "n", "l", "o", "a", "d">>

\* upload_folder.py: local_path = "./upload"
upload_local_path == <<".", SEP, "u", "p", "l", "o", "a", "d">>

\* upload_folder.py: remote_path = "/cloud/upload"
upload_remote_path == <<SEP, "c", "l", "o", "u", "d", SEP,
                        "u", "p", "l", "o", "a", "d">>

\* clear_recycle.py: the "/recycle" of "lsp /recycle" and f"/recycle/{item_name}"
recycle_path == <<SEP, "r", "e", "c", "y", "c", "l", "e">>

(***************************************************************************)
(* One command of a script reaching the shell.  A script is given an entry *)
(* name (a line of a listing, a name of os.listdir) and interpolates the   *)
(* paths it builds from it into a command line.                            *)
(***************************************************************************)
MaxPathLen == 3

ShellAlphabet == {"a", SP, DQ, DOLLAR, BT, BS, SQ}

RECURSIVE Texts(_, _)
Texts(alphabet, n) ==
  IF n = 0 THEN {<<>>}
  ELSE LET shorter == Texts(alphabet, n - 1)
       IN  shorter \cup {Append(t, c) : t \in shorter, c \in alphabet}

\* the path of the example: a b"c
ExamplePath == <<"a", SP, "b", DQ, "c">>

ShellPaths == (Texts(ShellAlphabet, MaxPathLen) \ {<<>>}) \cup {ExamplePath}

\* The paths each script interpolates for an entry called name.
command_args(verb, name) ==
  IF verb = "lsp" THEN <<download_remote_path \o <<SEP>> \o name>>
  ELSE IF verb = "download"
    THEN <<download_remote_path \o <<SEP>> \o name,
           join(download_local_path, name)>>
  ELSE IF verb = "rm" THEN <<recycle_path \o <<SEP>> \o name>>
  ELSE IF verb = "mkdir" THEN <<upload_remote_path \o <<SEP>> \o name>>
  ELSE <<join(upload_local_path, name),
         dirname(upload_remote_path \o <<SEP>> \o name)>>

InitShell ==
  /\ script = "shell"
  /\ pc = "start"
  /\ path \in ShellPaths
  /\ op \in Verbs
  /\ result = [outer |-> "none", words |-> 0, inner |-> "none", received |-> <<>>]
  /\ stack = <<>>
  /\ trace = <<>>
  /\ raised = FALSE
  /\ tree = {}

\* subprocess.run(command, shell=True, ...)
RunCommand ==
  /\ script = "shell"
  /\ pc = "start"
  /\ result' = shell_run(command_line(op, command_args(op, path)))
  /\ pc' = "done"
  /\ UNCHANGED <<script, stack, trace, raised, tree, path, op>>

NextShell == RunCommand

SpecShell == InitShell /\ [][NextShell]_vars

\* A path with a space or a shell metacharacter.
HasMeta(p) == \E k \in 1..Len(p) : p[k] \in {SP, DQ, DOLLAR, BT, BS, SQ}

\* C1: every path with a space or a shell metacharacter reaches the command
\* as one literal argument, equal to the original: the shell runs the line as
\* written (no syntax error, no substitution, no expansion, four words), and
\* un-escaping the -c word gives back the verb and exactly the paths.
C1_RoundTrip ==
  (script = "shell" /\ pc = "done" /\ HasMeta(path)) =>
     /\ result.outer = "ok"
     /\ result.words = 4
     /\ result.inner = "ok"
     /\ result.received = <<verb_text(op)>> \o command_args(op, path)

\* What does hold: a path whose only special characters are spaces
\* round-trips.
SpacesRoundTrip ==
  (script = "shell" /\ pc = "done"
     /\ \A k \in 1..Len(path) : path[k] \in {"a", SP}) =>
     /\ result.outer = "ok"
     /\ result.received = <<verb_text(op)>> \o command_args(op, path)

(***************************************************************************)
(* What a script does, in order: the commands it runs, the lines it        *)
(* prints, the local directories it makes.  depth is the number of calls   *)
(* of the traversal function that are active when the event happens.       *)
(***************************************************************************)
\* subprocess.run(command, shell=True, check=True, ...): ok is "exit status 0"
Ran(verb, args, ok, out, depth) ==
  [ev |-> "run", what |-> verb, args |-> args, ok |-> ok, out |-> out,
   depth |-> depth]

\* print(f"..."): what is the fixed text, args the paths the line names, those
\* of {e} included (str(CalledProcessError) quotes the command line)
Printed(text, args, depth) ==
  [ev |-> "print", what |-> text, args |-> args, ok |-> TRUE, out |-> <<>>,
   depth |-> depth]

\* os.makedirs(path, exist_ok=True)
MadeDirs(p, depth) ==
  [ev |-> "makedirs", what |-> "makedirs", args |-> <<p>>, ok |-> TRUE,
   out |-> <<>>, depth |-> depth]

(***************************************************************************)
(* download_folder.py                                                      *)
(***************************************************************************)
MaxEntries == 3

\* The lines a listing of the remote store is made of: blank, white space
\* only, a file, a file with white space around, a directory, a directory with
\* two separators, a lone separator.
DownloadLines == {<<>>, <<SP>>, <<"a">>, <<SP, "b", SP>>,
                  <<"s", SEP>>, <<"s", SEP, SEP>>, <<SEP>>}

RECURSIVE Seqs(_, _)
Seqs(S, n) ==
  IF n = 0 THEN {<<>>}
  ELSE LET shorter == Seqs(S, n - 1)
       IN  shorter \cup {Append(t, x) : t \in shorter, x \in S}

\* The text of a listing: every line ended by a newline.
RECURSIVE Text(_)
Text(lines) ==
  IF lines = <<>> THEN <<>> ELSE Head(lines) \o <<NL>> \o Text(Tail(lines))

\* The number of lines the listings have shown so far.
RECURSIVE LinesShown(_)
LinesShown(events) ==
  IF events = <<>> THEN 0
  ELSE Len(splitlines(Head(events).out)) + LinesShown(Tail(events))

\* What lsp may print: the remote store shows at most MaxEntries lines in all.
DownloadListings ==
  {Text(lines) : lines \in Seqs(DownloadLines, MaxEntries - LinesShown(trace))}

\* (faulty variant) the listing's failure is not caught
get_remote_files_uncaught(remote, ok, stdout, depth) ==
  [items |-> IF ok THEN splitlines(stdout) ELSE <<>>,
   events |-> <<Ran("lsp", <<remote>>, ok, stdout, depth)>>,
   raised |-> ~ok]

\* get_remote_files(remote_path), the command exiting with status 0 or not
get_remote_files(remote, ok, stdout, depth) ==
  IF ok
  THEN [items |-> splitlines(stdout),
        events |-> <<Ran("lsp", <<remote>>, TRUE, stdout, depth)>>,
        raised |-> FALSE]
  ELSE [items |-> <<>>,
        events |-> <<Ran("lsp", <<remote>>, FALSE, <<>>, depth),
                     Printed("Error retrieving files in", <<remote>>, depth)>>,
        raised |-> FALSE]

\* download_file(remote_file_path, local_file_path)
download_file(remote, local, ok, depth) ==
  [events |-> <<Ran("download", <<remote, local>>, ok, <<>>, depth),
                IF ok THEN Printed("Downloaded", <<remote, local>>, depth)
                ELSE Printed("Error downloading", <<remote>>, depth)>>,
   raised |-> FALSE]

\* A call of process_remote_path(remote_path, local_path) that has not listed
\* yet.
DownloadCall(remote, local) ==
  [remote_path |-> remote, local_path |-> local, listed |-> FALSE,
   items |-> <<>>, i |-> 1]

Top == stack[Len(stack)]

\* item_name = item.strip(), for the item the top call is at
item_name == strip(Top.items[Top.i])

\* remote_item_path = f"{remote_path}/{item_name}"
remote_item_path == Top.remote_path \o <<SEP>> \o item_name

\* The directory part of an entry name: item_name.rstrip('/') and
\* remote_item_path.rstrip('/')
strip_dir(name) == rstrip_sep(name)

\* An exception that nothing catches ends the script.
Unwind(r, next_stack) == IF r.raised THEN <<>> ELSE next_stack

Ended(r, next_pc) == IF r.raised THEN "raised" ELSE next_pc

InitDownload ==
  /\ script = "download"
  /\ pc = "run"
  /\ stack = <<DownloadCall(download_remote_path, download_local_path)>>
  /\ trace = <<MadeDirs(download_local_path, 0)>>
  /\ raised = FALSE
  /\ tree = {}
  /\ path = <<>>
  /\ op = "lsp"
  /\ result = [outer |-> "none", words |-> 0, inner |-> "none", received |-> <<>>]

\* items = get_remote_files(remote_path)
GetRemoteFiles ==
  /\ script = "download" /\ pc = "run"
  /\ ~Top.listed
  /\ \E ok \in BOOLEAN :
     \E stdout \in (IF ok THEN DownloadListings ELSE {<<>>}) :
       LET r == get_remote_files(Top.remote_path, ok, stdout, Len(stack))
       IN  /\ trace' = trace \o r.events
           /\ raised' = r.raised
           /\ pc' = Ended(r, "run")
           /\ stack' = Unwind(r, [stack EXCEPT ![Len(stack)] =
                                    [@ EXCEPT !.listed = TRUE, !.items = r.items]])
  /\ UNCHANGED <<script, tree, path, op, result>>

\* if not item_name: continue
SkipBlankLine ==
  /\ script = "download" /\ pc = "run"
  /\ Top.listed /\ Top.i <= Len(Top.items)
  /\ item_name = <<>>
  /\ stack' = [stack EXCEPT ![Len(stack)].i = @ + 1]
  /\ UNCHANGED <<script, pc, trace, raised, tree, path, op, result>>

\* if item_name.endswith('/'): make the local directory and recurse
EnterDirectory ==
  /\ script = "download" /\ pc = "run"
  /\ Top.listed /\ Top.i <= Len(Top.items)
  /\ item_name # <<>> /\ endswith_sep(item_name)
  /\ LET local_dir_path == join(Top.local_path, strip_dir(item_name))
     IN  /\ trace' = Append(trace, MadeDirs(local_dir_path, Len(stack)))
         /\ stack' = Append(stack, DownloadCall(strip_dir(remote_item_path),
                                                local_dir_path))
  /\ UNCHANGED <<script, pc, raised, tree, path, op, result>>

\* else: download_file(remote_item_path, local_file_path)
DownloadFile ==
  /\ script = "download" /\ pc = "run"
  /\ Top.listed /\ Top.i <= Len(Top.items)
  /\ item_name # <<>> /\ ~endswith_sep(item_name)
  /\ \E ok \in BOOLEAN :
       LET local_file_path == join(Top.local_path, item_name)
           r == download_file(remote_item_path, local_file_path, ok, Len(stack))
       IN  /\ trace' = trace \o r.events
           /\ raised' = r.raised
           /\ pc' = Ended(r, "run")
           /\ stack' = Unwind(r, [stack EXCEPT ![Len(stack)].i = @ + 1])
  /\ UNCHANGED <<script, tree, path, op, result>>

\* The for loop of a call is over: the call returns, to the loop of its caller
\* or, from the first call, to the end of the script.
ReturnFromPath ==
  /\ script = "download" /\ pc = "run"
  /\ Top.listed /\ Top.i > Len(Top.items)
  /\ IF Len(stack) = 1
     THEN stack' = <<>> /\ pc' = "done"
     ELSE /\ stack' = [SubSeq(stack, 1, Len(stack) - 1)
                         EXCEPT ![Len(stack) - 1].i = @ + 1]
          /\ pc' = pc
  /\ UNCHANGED <<script, trace, raised, tree, path, op, result>>

NextDownload ==
  \/ GetRemoteFiles
  \/ SkipBlankLine
  \/ EnterDirectory
  \/ DownloadFile
  \/ ReturnFromPath

SpecDownload == InitDownload /\ [][NextDownload]_vars

(***************************************************************************)
(* clear_recycle.py                                                        *)
(***************************************************************************)
MaxOutLen == 4

RecycleAlphabet == {"x", "y", SP, NL, CR}

\* What "lsp /recycle" may print: any text of at most MaxOutLen characters.
RecycleListings == Texts(RecycleAlphabet, MaxOutLen)

\* get_remote_recycle_files()
get_remote_recycle_files(ok, stdout, depth) ==
  IF ok
  THEN [items |-> splitlines(stdout),
        events |-> <<Ran("lsp", <<recycle_path>>, TRUE, stdout, depth)>>,
        raised |-> FALSE]
  ELSE [items |-> <<>>,
        events |-> <<Ran("lsp", <<recycle_path>>, FALSE, <<>>, depth),
                     Printed("Error retrieving files in recycle",
                             <<recycle_path>>, depth)>>,
        raised |-> FALSE]

\* (faulty variant) the removal's failure is not caught
remove_item_uncaught(remote_file_path, ok, depth) ==
  [events |-> <<Ran("rm", <<remote_file_path>>, ok, <<>>, depth)>>
              \o (IF ok THEN <<Printed("Removed", <<remote_file_path>>, depth)>>
                  ELSE <<>>),
   raised |-> ~ok]

\* the try block of clear_recycle's loop
remove_item(remote_file_path, ok, depth) ==
  [events |-> <<Ran("rm", <<remote_file_path>>, ok, <<>>, depth),
                IF ok THEN Printed("Removed", <<remote_file_path>>, depth)
                ELSE Printed("Error removing", <<remote_file_path>>, depth)>>,
   raised |-> FALSE]

RecycleCall == [listed |-> FALSE, items |-> <<>>, i |-> 1]

InitRecycle ==
  /\ script = "recycle"
  /\ pc = "run"
  /\ stack = <<RecycleCall>>
  /\ trace = <<>>
  /\ raised = FALSE
  /\ tree = {}
  /\ path = <<>>
  /\ op = "lsp"
  /\ result = [outer |-> "none", words |-> 0, inner |-> "none", received |-> <<>>]

\* items = get_remote_recycle_files()
GetRemoteRecycleFiles ==
  /\ script = "recycle" /\ pc = "run"
  /\ ~Top.listed
  /\ \E ok \in BOOLEAN :
     \E stdout \in (IF ok THEN RecycleListings ELSE {<<>>}) :
       LET r == get_remote_recycle_files(ok, stdout, Len(stack))
       IN  /\ trace' = trace \o r.events
           /\ raised' = r.raised
           /\ pc' = Ended(r, "run")
           /\ stack' = Unwind(r, <<[Top EXCEPT !.listed = TRUE,
                                                !.items = r.items]>>)
  /\ UNCHANGED <<script, tree, path, op, result>>

\* if not item_name: continue
SkipBlankItem ==
  /\ script = "recycle" /\ pc = "run"
  /\ Top.listed /\ Top.i <= Len(Top.items)
  /\ item_name = <<>>
  /\ stack' = [stack EXCEPT ![Len(stack)].i = @ + 1]
  /\ UNCHANGED <<script, pc, trace, raised, tree, path, op, result>>

\* remote_file_path = f"/recycle/{item_name}" and its removal
RemoveItem ==
  /\ script = "recycle" /\ pc = "run"
  /\ Top.listed /\ Top.i <= Len(Top.items)
  /\ item_name # <<>>
  /\ \E ok \in BOOLEAN :
       LET remote_file_path == recycle_path \o <<SEP>> \o item_name
           r == remove_item(remote_file_path, ok, Len(stack))
       IN  /\ trace' = trace \o r.events
           /\ raised' = r.raised
           /\ pc' = Ended(r, "run")
           /\ stack' = Unwind(r, [stack EXCEPT ![Len(stack)].i = @ + 1])
  /\ UNCHANGED <<script, tree, path, op, result>>

\* the loop is over
RecycleCleared ==
  /\ script = "recycle" /\ pc = "run"
  /\ Top.listed /\ Top.i > Len(Top.items)
  /\ stack' = <<>>
  /\ pc' = "done"
  /\ UNCHANGED <<script, trace, raised, tree, path, op, result>>

NextRecycle ==
  \/ GetRemoteRecycleFiles
  \/ SkipBlankItem
  \/ RemoveItem
  \/ RecycleCleared

SpecRecycle == InitRecycle /\ [][NextRecycle]_vars

(***************************************************************************)
(* upload_folder.py                                                        *)
(***************************************************************************)
\* A call of a function of the script, as a step of the trace.
Called(function, args, depth) ==
  [ev |-> "call", what |-> function, args |-> args, ok |-> TRUE, out |-> <<>>,
   depth |-> depth]

\* The local tree under ./upload: its entries, each a local path and whether
\* it is a directory.
LocalFile(names) == [path |-> names, dir |-> FALSE]

LocalDir(names) == [path |-> names, dir |-> TRUE]

under_upload(name) == upload_local_path \o <<SEP>> \o name

LocalTrees ==
  { {},
    {LocalFile(under_upload(<<"f">>))},
    {LocalDir(under_upload(<<"d">>))},
    {LocalDir(under_upload(<<"d">>)), LocalFile(under_upload(<<"d", SEP, "g">>))},
    {LocalFile(under_upload(<<"f">>)), LocalDir(under_upload(<<"d">>))},
    {LocalFile(under_upload(<<"f">>)), LocalFile(under_upload(<<"g", SP, "g">>))} }

\* os.listdir(local_path), as a set: the order is the file system's
listdir(local) == {basename(e.path) : e \in {x \in tree : dirname(x.path) = local}}

\* os.path.isdir(local_item_path)
isdir(local) == \E e \in tree : e.path = local /\ e.dir

\* The orders in which a set of names can be enumerated.
Orders(S) ==
  {q \in Seqs(S, Cardinality(S)) :
     Len(q) = Cardinality(S) /\ \A x \in S : \E k \in 1..Len(q) : q[k] = x}

\* What "lsp <parent>" may print when the script looks for the directory name
\* in it: nothing, the directory, the directory with white space around, a
\* file of that name, the name with two separators, the directory as the
\* second line.
UploadListings(name) ==
  { <<>>,
    name \o <<SEP, NL>>,
    <<SP>> \o name \o <<SEP, SP, NL>>,
    name \o <<NL>>,
    name \o <<SEP, SEP, NL>>,
    <<"o", SEP, NL>> \o name \o <<SEP, NL>> }

\* (faulty variant) the lines of the parent's listing are compared as they are
remote_path_exists_untrimmed(remote, ok, stdout, depth) ==
  LET parent_path == dirname(rstrip_sep(remote))
      directory_name == basename(rstrip_sep(remote))
      items == splitlines(stdout)
  IN  [exists |-> ok /\ \E k \in 1..Len(items) :
                          items[k] = directory_name \o <<SEP>>,
       events |-> <<Ran("lsp", <<parent_path>>, ok, stdout, depth)>>,
       raised |-> FALSE]

\* remote_path_exists(remote_path)
remote_path_exists(remote, ok, stdout, depth) ==
  LET parent_path == dirname(rstrip_sep(remote))
      directory_name == basename(rstrip_sep(remote))
      items == splitlines(stdout)
  IN  IF ok
      THEN [exists |-> \E k \in 1..Len(items) :
                          strip(items[k]) = directory_name \o <<SEP>>,
            events |-> <<Ran("lsp", <<parent_path>>, TRUE, stdout, depth)>>,
            raised |-> FALSE]
      ELSE [exists |-> FALSE,
            events |-> <<Ran("lsp", <<parent_path>>, FALSE, <<>>, depth)>>,
            raised |-> FALSE]

\* (faulty variant) a failed mkdir prints nothing
make_remote_path_silent(remote, ok, depth) ==
  [events |-> <<Ran("mkdir", <<remote>>, ok, <<>>, depth)>>
              \o (IF ok THEN <<Printed("Created remote directory", <<remote>>,
                                        depth)>>
                  ELSE <<>>),
   raised |-> FALSE]

\* the try block of ensure_remote_path: the mkdir command
make_remote_path(remote, ok, depth) ==
  [events |-> <<Ran("mkdir", <<remote>>, ok, <<>>, depth),
                IF ok THEN Printed("Created remote directory", <<remote>>, depth)
                ELSE Printed("Error creating directory", <<remote>>, depth)>>,
   raised |-> FALSE]

\* ensure_remote_path(remote_path); lsok and stdout are the outcome of the
\* parent's listing, mkok that of mkdir when it is run
ensure_remote_path(remote, lsok, stdout, mkok, depth) ==
  LET e == remote_path_exists(remote, lsok, stdout, depth)
      m == make_remote_path(remote, mkok, depth)
      call == <<Called("ensure_remote_path", <<remote>>, depth)>>
  IN  IF e.raised \/ e.exists
      THEN [events |-> call \o e.events, raised |-> e.raised]
      ELSE [events |-> call \o e.events \o m.events, raised |-> m.raised]

\* (faulty variant) the file is uploaded without its parent being ensured again
upload_file_unensured(local_file, remote_file, lsok, stdout, mkok, ok, depth) ==
  LET parent_folder == dirname(remote_file)
  IN  [events |-> <<Called("upload_file", <<local_file, remote_file>>, depth),
                    Ran("upload", <<local_file, parent_folder>>, ok, <<>>, depth),
                    IF ok
                    THEN Printed("Uploaded", <<local_file, remote_file>>, depth)
                    ELSE Printed("Error uploading", <<local_file, parent_folder>>,
                                 depth)>>,
       raised |-> FALSE]

\* upload_file(local_file_path, remote_file_path)
upload_file(local_file, remote_file, lsok, stdout, mkok, ok, depth) ==
  LET parent_folder == dirname(remote_file)
      e == ensure_remote_path(parent_folder, lsok, stdout, mkok, depth)
      u == <<Ran("upload", <<local_file, parent_folder>>, ok, <<>>, depth),
             IF ok THEN Printed("Uploaded", <<local_file, remote_file>>, depth)
             ELSE Printed("Error uploading", <<local_file, parent_folder>>, depth)>>
      call == <<Called("upload_file", <<local_file, remote_file>>, depth)>>
  IN  IF e.raised THEN [events |-> call \o e.events, raised |-> TRUE]
      ELSE [events |-> call \o e.events \o u, raised |-> FALSE]

\* A call of process_local_path(local_path, remote_path) that has not started.
UploadCall(local, remote) ==
  [local_path |-> local, remote_path |-> remote, listed |-> FALSE,
   items |-> <<>>, i |-> 1]

\* local_item_path = os.path.join(local_path, item)
local_item_path == join(Top.local_path, Top.items[Top.i])

\* remote_item_path = f"{remote_path}/{item}" in process_local_path
remote_upload_path == Top.remote_path \o <<SEP>> \o Top.items[Top.i]

\* The outcomes of the commands of one ensure_remote_path(remote): the
\* parent's listing, and mkdir.
EnsureOutcomes(remote) ==
  {[lsok |-> TRUE, stdout |-> t, mkok |-> m] :
      t \in UploadListings(basename(rstrip_sep(remote))), m \in BOOLEAN}
  \cup {[lsok |-> FALSE, stdout |-> <<>>, mkok |-> m] : m \in BOOLEAN}

InitUpload ==
  /\ script = "upload"
  /\ pc = "run"
  /\ tree \in LocalTrees
  /\ stack = <<UploadCall(upload_local_path, upload_remote_path)>>
  /\ trace = <<>>
  /\ raised = FALSE
  /\ path = <<>>
  /\ op = "lsp"
  /\ result = [outer |-> "none", words |-> 0, inner |-> "none", received |-> <<>>]

\* process_local_path: ensure_remote_path(remote_path), then os.listdir
BeginLocalPath ==
  /\ script = "upload" /\ pc = "run"
  /\ ~Top.listed
  /\ \E o \in EnsureOutcomes(Top.remote_path) :
     \E order \in Orders(listdir(Top.local_path)) :
       LET r == ensure_remote_path(Top.remote_path, o.lsok, o.stdout, o.mkok,
                                   Len(stack))
       IN  /\ trace' = Append(trace, Called("process_local_path",
                                   <<Top.local_path, Top.remote_path>>,
                                   Len(stack))) \o r.events
           /\ raised' = r.raised
           /\ pc' = Ended(r, "run")
           /\ stack' = Unwind(r, [stack EXCEPT ![Len(stack)] =
                                    [@ EXCEPT !.listed = TRUE, !.items = order]])
  /\ UNCHANGED <<script, tree, path, op, result>>

\* if os.path.isdir(local_item_path): ensure_remote_path(remote_item_path)
\* and the recursive call
EnterLocalDir ==
  /\ script = "upload" /\ pc = "run"
  /\ Top.listed /\ Top.i <= Len(Top.items)
  /\ isdir(local_item_path)
  /\ \E o \in EnsureOutcomes(remote_upload_path) :
       LET r == ensure_remote_path(remote_upload_path, o.lsok, o.stdout, o.mkok,
                                   Len(stack))
       IN  /\ trace' = trace \o r.events
           /\ raised' = r.raised
           /\ pc' = Ended(r, "run")
           /\ stack' = Unwind(r, Append(stack,
                          UploadCall(local_item_path, remote_upload_path)))
  /\ UNCHANGED <<script, tree, path, op, result>>

\* else: upload_file(local_item_path, remote_item_path)
UploadFile ==
  /\ script = "upload" /\ pc = "run"
  /\ Top.listed /\ Top.i <= Len(Top.items)
  /\ ~isdir(local_item_path)
  /\ \E o \in EnsureOutcomes(dirname(remote_upload_path)) :
     \E ok \in BOOLEAN :
       LET r == upload_file(local_item_path, remote_upload_path,
                            o.lsok, o.stdout, o.mkok, ok, Len(stack))
       IN  /\ trace' = trace \o r.events
           /\ raised' = r.raised
           /\ pc' = Ended(r, "run")
           /\ stack' = Unwind(r, [stack EXCEPT ![Len(stack)].i = @ + 1])
  /\ UNCHANGED <<script, tree, path, op, result>>

\* The for loop of a call is over.
ReturnFromLocal ==
  /\ script = "upload" /\ pc = "run"
  /\ Top.listed /\ Top.i > Len(Top.items)
  /\ IF Len(stack) = 1
     THEN stack' = <<>> /\ pc' = "done"
     ELSE /\ stack' = [SubSeq(stack, 1, Len(stack) - 1)
                         EXCEPT ![Len(stack) - 1].i = @ + 1]
          /\ pc' = pc
  /\ UNCHANGED <<script, trace, raised, tree, path, op, result>>

NextUpload ==
  \/ BeginLocalPath
  \/ EnterLocalDir
  \/ UploadFile
  \/ ReturnFromLocal

SpecUpload == InitUpload /\ [][NextUpload]_vars

(***************************************************************************)
(* The three scripts.                                                      *)
(***************************************************************************)
Init == InitDownload \/ InitUpload \/ InitRecycle

Next == NextDownload \/ NextUpload \/ NextRecycle

Spec == Init /\ [][Next]_vars

(***************************************************************************)
(* What the claims speak of, stated apart from the code: the entries of a  *)
(* listing, the parent and the last component of a path, the mirror of a   *)
(* path.                                                                   *)
(***************************************************************************)
Min(S) == CHOOSE x \in S : \A y \in S : x <= y

Max(S) == CHOOSE x \in S : \A y \in S : x >= y

Range(q) == {q[k] : k \in 1..Len(q)}

\* The text without the white space around it; <<>> for a blank text.
Trimmed(t) ==
  LET ink == {m \in 1..Len(t) : t[m] \notin {SP, "\t", NL, CR}}
  IN  IF ink = {} THEN <<>> ELSE SubSeq(t, Min(ink), Max(ink))

\* Where the non-empty lines of a text start, and where the line that starts
\* at a ends.
LineStarts(t) ==
  {a \in 1..Len(t) : t[a] \notin {NL, CR} /\ (a = 1 \/ t[a - 1] \in {NL, CR})}

LineEnd(t, a) ==
  Min({b \in a..Len(t) : b = Len(t) \/ t[b + 1] \in {NL, CR}})

\* The non-blank lines of a text, trimmed, in order.
RECURSIVE EntriesFrom(_, _)
EntriesFrom(t, starts) ==
  IF starts = {} THEN <<>>
  ELSE LET a == Min(starts)
           e == Trimmed(SubSeq(t, a, LineEnd(t, a)))
       IN  (IF e = <<>> THEN <<>> ELSE <<e>>) \o EntriesFrom(t, starts \ {a})

Entries(t) == EntriesFrom(t, LineStarts(t))

\* The position of the last separator of a path (0: none).
LastSep(p) == Max({0} \cup {k \in 1..Len(p) : p[k] = SEP})

\* The parent of a path and its last component.
ParentOf(p) == SubSeq(p, 1, LastSep(p) - 1)

NameOf(p) == SubSeq(p, LastSep(p) + 1, Len(p))

IsPrefix(a, b) == Len(a) <= Len(b) /\ SubSeq(b, 1, Len(a)) = a

\* The path that mirrors p, a path under the root from, under the root to.
Mirror(p, from, to) == to \o SubSeq(p, Len(from) + 1, Len(p))

IsRun(e, verb) == e.ev = "run" /\ e.what = verb

Runs(verb) == {k \in 1..Len(trace) : IsRun(trace[k], verb)}

\* No exception has left a script.
NothingRaised == pc # "raised" /\ raised = FALSE

(***************************************************************************)
(* clear_recycle: the claims.                                              *)
(***************************************************************************)
IsRm(e) == IsRun(e, "rm")

\* C3: clear_recycle attempts exactly one rm per non-blank entry of the
\* listing of /recycle, against "/recycle/" + the entry's name, in the
\* listing's order, whatever removals failed before: each removal is reported
\* (Removed when it succeeded, Error removing when it failed), no failure
\* leaves the loop, and when the script ends every entry has been attempted.
C3_EveryEntryAttempted ==
  (script = "recycle" /\ trace # <<>>) =>
    LET want == IF trace[1].ok THEN Entries(trace[1].out) ELSE <<>>
        rms == SelectSeq(trace, IsRm)
    IN  /\ NothingRaised
        /\ Len(rms) <= Len(want)
        /\ \A k \in 1..Len(rms) :
             rms[k].args = <<recycle_path \o <<SEP>> \o want[k]>>
        /\ pc = "done" => Len(rms) = Len(want)
        /\ \A k \in Runs("rm") :
             /\ k < Len(trace)
             /\ trace[k + 1].ev = "print"
             /\ trace[k + 1].args = trace[k].args
             /\ trace[k + 1].what =
                  IF trace[k].ok THEN "Removed" ELSE "Error removing"

\* C3's case: the listing is x, y; removing x failed, removing y succeeded
\* and was reported.
C3_Witness ==
  /\ script = "recycle" /\ pc = "done"
  /\ Entries(trace[1].out) = <<<<"x">>, <<"y">>>>
  /\ \E j \in Runs("rm") : \E k \in Runs("rm") :
       /\ j < k
       /\ ~trace[j].ok /\ trace[j].args = <<recycle_path \o <<SEP, "x">>>>
       /\ trace[k].ok /\ trace[k].args = <<recycle_path \o <<SEP, "y">>>>
       /\ trace[k + 1].what = "Removed"

(***************************************************************************)
(* download_folder: the claims.                                            *)
(***************************************************************************)
\* The events at the places ks of the trace, in order.
RECURSIVE EventsAt(_)
EventsAt(ks) ==
  IF ks = {} THEN <<>> ELSE <<trace[Min(ks)]>> \o EventsAt(ks \ {Min(ks)})

\* The call of process_remote_path that ran the listing at place j of the
\* trace is over, at the latest, at the next event of a caller or the next
\* listing of a call at its depth.
CallEnd(j) ==
  Min({m \in (j + 1)..Len(trace) :
         \/ trace[m].depth < trace[j].depth
         \/ trace[m].depth = trace[j].depth /\ IsRun(trace[m], "lsp")}
      \cup {Len(trace) + 1})

\* What that call did with its entries: a download for a file, a local
\* directory (and a recursive call) for a directory.
ActsOf(j) ==
  EventsAt({m \in (j + 1)..(CallEnd(j) - 1) :
              /\ trace[m].depth = trace[j].depth
              /\ IsRun(trace[m], "download") \/ trace[m].ev = "makedirs"})

ListedEntries(j) == IF trace[j].ok THEN Entries(trace[j].out) ELSE <<>>

EndsInSep(e) == e # <<>> /\ e[Len(e)] = SEP

\* C6: the entries a traversal acts on are exactly the non-blank lines of the
\* listing, trimmed, in order: in download_folder every call of
\* process_remote_path makes one download (of the listed path + "/" + entry)
\* or one local directory per entry and nothing for a blank line; in
\* clear_recycle the rm commands are those of the entries.  When the script
\* ends no entry is left out.
C6_EntriesAreNonBlankLines ==
  /\ script = "download" =>
       \A j \in Runs("lsp") :
         LET want == ListedEntries(j)
             acts == ActsOf(j)
         IN  /\ Len(acts) <= Len(want)
             /\ \A m \in 1..Len(acts) :
                  IF EndsInSep(want[m]) THEN acts[m].ev = "makedirs"
                  ELSE /\ IsRun(acts[m], "download")
                       /\ acts[m].args[1] = trace[j].args[1] \o <<SEP>> \o want[m]
             /\ pc = "done" => Len(acts) = Len(want)
  /\ script = "recycle" =>
       \A j \in Runs("lsp") :
         LET want == ListedEntries(j)
             rms == EventsAt(Runs("rm"))
         IN  /\ Len(rms) <= Len(want)
             /\ \A m \in 1..Len(rms) :
                  rms[m].args[1] = recycle_path \o <<SEP>> \o want[m]
             /\ pc = "done" => Len(rms) = Len(want)

\* C6's case: a listing with a blank line, a line of white space and an entry
\* with white space around it has been walked to its end, in download_folder
\* or in clear_recycle.
C6_Witness ==
  /\ pc = "done"
  /\ script \in {"download", "recycle"}
  /\ \E j \in Runs("lsp") :
       /\ trace[j].ok
       /\ \E a \in LineStarts(trace[j].out) :
            LET line == SubSeq(trace[j].out, a, LineEnd(trace[j].out, a))
            IN  Trimmed(line) # <<>> /\ Trimmed(line) # line
       /\ \E a \in LineStarts(trace[j].out) :
            Trimmed(SubSeq(trace[j].out, a, LineEnd(trace[j].out, a))) = <<>>
       /\ Len(ListedEntries(j)) >= 1

\* C2: when the listing of a subdirectory fails, the subdirectory has no
\* entries (its call does nothing), no exception leaves the traversal, and
\* when the script ends every entry of the listing of the parent has been
\* processed, those after the subdirectory included.
C2_ListingFailureSkipsSubtree ==
  script = "download" =>
    /\ NothingRaised
    /\ \A j \in Runs("lsp") :
         (~trace[j].ok /\ trace[j].depth >= 2) =>
           LET parent == Max({m \in 1..(j - 1) :
                                /\ IsRun(trace[m], "lsp")
                                /\ trace[m].depth = trace[j].depth - 1})
           IN  /\ ActsOf(j) = <<>>
               /\ Len(stack) >= trace[j].depth /\ CallEnd(j) > Len(trace)
                    => stack[trace[j].depth].items = <<>>
               /\ pc = "done" =>
                    Len(ActsOf(parent)) = Len(ListedEntries(parent))

\* C2's case: the listing of a subdirectory failed and the file listed after
\* it in the parent was downloaded.
C2_Witness ==
  /\ script = "download" /\ pc = "done"
  /\ \E j \in Runs("lsp") : \E k \in Runs("download") :
       /\ ~trace[j].ok /\ trace[j].depth = 2
       /\ k > j /\ trace[k].depth = 1 /\ trace[k].ok

\* An entry of a tree's listing: a name without separator, or such a name
\* followed by one separator.
PlainEntry(e) ==
  /\ e # <<>>
  /\ \A k \in 1..(Len(e) - 1) : e[k] # SEP
  /\ e # <<SEP>>

\* Every command succeeded and every listing is that of a directory of a
\* tree: plain entries, no name twice.
PlainTree ==
  /\ \A k \in 1..Len(trace) : trace[k].ev = "run" => trace[k].ok
  /\ \A j \in Runs("lsp") :
       LET es == Entries(trace[j].out)
       IN  /\ \A m \in 1..Len(es) : PlainEntry(es[m])
           /\ \A m, n \in 1..Len(es) : es[m] = es[n] => m = n

\* The remote files the listings show.
RemoteFiles ==
  UNION {{trace[j].args[1] \o <<SEP>> \o e :
            e \in {x \in Range(Entries(trace[j].out)) : ~EndsInSep(x)}} :
         j \in Runs("lsp")}

LocalMirror(remote) == Mirror(remote, download_remote_path, download_local_path)

\* C4: over a remote tree whose commands all succeed, every download is that
\* of a listed remote file into the local path that mirrors it, no file is
\* downloaded twice, the local directory of a download and the local
\* directory that mirrors a listed remote directory are made before the
\* download and before the listing, and when the script ends every listed
\* file has been downloaded.
C4_MirrorsTree ==
  (script = "download" /\ PlainTree) =>
    /\ \A k \in Runs("download") :
         /\ trace[k].args[1] \in RemoteFiles
         /\ trace[k].args[2] = LocalMirror(trace[k].args[1])
         /\ \A m \in Runs("download") :
              trace[m].args[1] = trace[k].args[1] => m = k
         /\ \E m \in 1..(k - 1) :
              /\ trace[m].ev = "makedirs"
              /\ trace[m].args = <<ParentOf(trace[k].args[2])>>
    /\ \A j \in Runs("lsp") :
         \E m \in 1..(j - 1) :
           /\ trace[m].ev = "makedirs"
           /\ trace[m].args = <<LocalMirror(trace[j].args[1])>>
    /\ pc = "done" =>
         \A f \in RemoteFiles : \E k \in Runs("download") : trace[k].args[1] = f

\* C4's case, the tree of the example: a file and a subdirectory with a file.
C4_Witness ==
  /\ script = "download" /\ pc = "done" /\ PlainTree
  /\ \E k \in Runs("download") :
       trace[k].args = <<download_remote_path \o <<SEP, "a">>,
                         download_local_path \o <<SEP, "a">>>>
  /\ \E k \in Runs("download") :
       trace[k].args = <<download_remote_path \o <<SEP, "s", SEP, "b">>,
                         download_local_path \o <<SEP, "s", SEP, "b">>>>

\* C5: an entry whose trimmed name ends in '/' is a directory, and the remote
\* path and the local directory of the recursive call are those of the name
\* less exactly one trailing '/'.
C5_StripsOneSeparator ==
  script = "download" =>
    \A k \in 2..Len(stack) :
      LET caller == stack[k - 1]
          name == Trimmed(caller.items[caller.i])
          once == SubSeq(name, 1, Len(name) - 1)
      IN  /\ EndsInSep(name)
          /\ stack[k].remote_path = caller.remote_path \o <<SEP>> \o once
          /\ stack[k].local_path = caller.local_path \o <<SEP>> \o once

\* C10: every recursive call of process_remote_path is made on a remote path
\* strictly longer than its caller's.
C10_StrictlyDeeper ==
  script = "download" =>
    \A k \in 2..Len(stack) :
      Len(stack[k].remote_path) > Len(stack[k - 1].remote_path)

(***************************************************************************)
(* upload_folder: the claims.                                              *)
(***************************************************************************)
IsEnsure(e) == e.ev = "call" /\ e.what = "ensure_remote_path"

IsCall(e, function) == e.ev = "call" /\ e.what = function

\* The listing at place j of the trace shows the directory p: one of its
\* lines, trimmed, is the last component of p followed by a separator.
Shows(j, p) ==
  trace[j].ok /\ (NameOf(p) \o <<SEP>>) \in Range(Entries(trace[j].out))

\* C7: ensure_remote_path(path) lists the parent of path, and runs mkdir on
\* path exactly when the listing failed or shows no line that, trimmed, is
\* the last component of path + "/"; after that it returns, whether mkdir
\* succeeded or not, and nothing is listed again to verify: the caller goes
\* on (upload_file with its upload).
C7_MkdirIffAbsent ==
  script = "upload" =>
    /\ NothingRaised
    /\ \A k \in 1..Len(trace) :
         IsEnsure(trace[k]) =>
           LET p == trace[k].args[1]
           IN  /\ k + 1 <= Len(trace)
               /\ IsRun(trace[k + 1], "lsp")
               /\ trace[k + 1].args = <<ParentOf(p)>>
               /\ IF Shows(k + 1, p)
                  THEN k + 2 <= Len(trace) => ~IsRun(trace[k + 2], "mkdir")
                  ELSE /\ k + 3 <= Len(trace)
                       /\ IsRun(trace[k + 2], "mkdir")
                       /\ trace[k + 2].args = <<p>>
                       /\ trace[k + 3].ev = "print"
                       /\ k + 4 <= Len(trace) => ~IsRun(trace[k + 4], "lsp")
    /\ \A m \in Runs("mkdir") :
         m >= 3 /\ IsEnsure(trace[m - 2]) /\ trace[m - 2].args = trace[m].args
    /\ \A m \in Runs("lsp") : m >= 2 /\ IsEnsure(trace[m - 1])
    /\ \A k \in 1..Len(trace) :
         IsCall(trace[k], "upload_file") =>
           \E m \in (k + 1)..Len(trace) :
             /\ IsRun(trace[m], "upload")
             /\ trace[m].args[1] = trace[k].args[1]
             /\ \A n \in (k + 1)..(m - 1) : ~IsCall(trace[n], "upload_file")

\* C7's case: the parent's listing showed the directory with white space
\* around its line and no mkdir followed; another listing did not show it,
\* mkdir was run and failed, and the upload went on.
C7_Witness ==
  /\ script = "upload" /\ pc = "done"
  /\ \E k \in Runs("lsp") :
       /\ trace[k].ok
       /\ trace[k].out = <<SP>> \o NameOf(trace[k - 1].args[1]) \o <<SEP, SP, NL>>
       /\ k < Len(trace) /\ ~IsRun(trace[k + 1], "mkdir")
  /\ \E m \in Runs("mkdir") :
       /\ ~trace[m].ok
       /\ trace[m - 1].ok
       /\ m + 2 <= Len(trace) /\ IsRun(trace[m + 2], "upload")

\* The remote directory that mirrors a local one.
RemoteMirror(local) == Mirror(local, upload_local_path, upload_remote_path)

\* The remote directories above q, from the remote root down.
Ancestors(q) ==
  {SubSeq(q, 1, k - 1) :
     k \in {n \in (Len(upload_remote_path) + 2)..Len(q) : q[n] = SEP}}

EnsuredBefore(a, k) ==
  \E m \in 1..(k - 1) :
    /\ IsEnsure(trace[m]) /\ trace[m].args = <<a>>
    /\ m + 1 < k /\ IsRun(trace[m + 1], "lsp")

ErrorLines == {"Error retrieving files in", "Error retrieving files in recycle",
               "Error downloading", "Error removing",
               "Error creating directory", "Error uploading"}

\* The failure of the command at place k of the trace is reported at once, by
\* a line that names a path of the command.
Logged(k) ==
  /\ k < Len(trace)
  /\ trace[k + 1].ev = "print"
  /\ trace[k + 1].what \in ErrorLines
  /\ \E a \in Range(trace[k].args) : a \in Range(trace[k + 1].args)

FailedRuns == {k \in 1..Len(trace) : trace[k].ev = "run" /\ ~trace[k].ok}

====
